---- MODULE Spec2Model ----
(***************************************************************************)
(* Model of the ledger-backed event handlers of telegram_bot.py: the three *)
(* worksheets list_image, list_video and list_output, and the handlers     *)
(* that read and write them (image/video submission and edit, message      *)
(* deletion, /domany).                                                     *)
(*                                                                         *)
(* Text is modelled as follows.  Message ids are integers in the events    *)
(* and decimal text in the sheet (gspread returns every cell as text), so  *)
(* an id cell is the sequence of its decimal digits, the empty cell is     *)
(* << >>, and an output key is the digits of the image id, "_" and the     *)
(* digits of the video id.  Captions and names are TLA+ strings.           *)
(***************************************************************************)
EXTENDS Integers, Sequences, FiniteSets, TLC

\* ------------------------------------------------------------------ bounds

\* list_video grows without limit in the code; the model stops appending here.
MaxVideoRows == 2
\* list_output rows the model allows a batch run to reach.
MaxOutputRows == 3
\* Number of identifiers one MessageDeleted event carries.
MaxDeleted == 1
\* list_image rows the model allows the suspended handlers to reach.
MaxImageRows == 2
\* Number of threads that call enhance_face.
MaxThreads == 3

\* Message ids of photo messages, of video messages, and one id of a message
\* that was never registered.
ImageMsgIds == {1, 11}
VideoMsgIds == {2, 12}
OtherMsgIds == {5}
MsgIds == ImageMsgIds \cup VideoMsgIds \cup OtherMsgIds

\* Captions a photo / a video message can carry ("" is no caption).
ImageTexts == {"", "alice", "Alice", "alicia"}
VideoTexts == {"", "v1", "V1"}

\* Identifiers the messaging service hands out for a new topic / channel.
TopicIds == {7}
ChannelIds == {8}

\* ------------------------------------------------------------------ text

DigitChars == <<"0", "1", "2", "3", "4", "5", "6", "7", "8", "9">>

\* str(n) of a non-negative integer: its decimal digits.
RECURSIVE Str(_)
Str(n) == IF n < 10 THEN <<DigitChars[n + 1]>>
          ELSE Str(n \div 10) \o <<DigitChars[(n % 10) + 1]>>

\* str.lower() on the captions of the model.
Lower(text) == CASE text = "Alice" -> "alice"
                 [] text = "V1" -> "v1"
                 [] OTHER -> text

\* str.strip() on the names of the model.
Strip(text) == IF text = " alice " THEN "alice" ELSE text

\* str.startswith
StartsWith(s, prefix) ==
    /\ Len(prefix) <= Len(s)
    /\ SubSeq(s, 1, Len(prefix)) = prefix

\* Python values of the two types that meet in comparisons.
PyInt(n) == [type |-> "int", val |-> n]
PyStr(s) == [type |-> "str", val |-> s]
\* Python ==: values of different types are never equal.
PyEq(a, b) == a.type = b.type /\ a.val = b.val

\* f"{image_id}_{video_id}" from the two id texts.
OutputKey(image_id, video_id) == image_id \o <<"_">> \o video_id
\* f"{image_name}_{video_name}"
ComboName(image_name, video_name) == <<image_name, "_", video_name>>

\* ------------------------------------------------------------------ state

VARIABLES
    list_image,   \* worksheet list_image without its header row
    list_video,   \* worksheet list_video without its header row
    list_output,  \* worksheet list_output without its header row
    last,         \* the event handled last and what its handler did
    suspended,    \* the image handler runs waiting at an await
    pc,           \* where each thread of the face enhancer is in enhance_face
    permits       \* the value of THREAD_SEMAPHORE

vars == <<list_image, list_video, list_output, last, suspended, pc, permits>>

OutputChatId == "2326968720"

\* The row append_row writes for a new image.
ImageRow(message_id, message_text, topic_id, channel_id) ==
    [id |-> Str(message_id), name |-> message_text, chat |-> OutputChatId,
     topic |-> Str(topic_id), prior |-> message_text, channel |-> channel_id]

VideoRow(message_id, message_text) ==
    [id |-> Str(message_id), name |-> message_text]

OutputRow(key, combo_name) == [key |-> key, label |-> combo_name]

\* ------------------------------------------------------------------ sheet

\* worksheet.delete_rows(row_number): sheet row 1 is the header, so data row k
\* is sheet row k + 1.
DeleteRows(table, row_number) ==
    LET k == row_number - 1 IN
    IF k >= 1 /\ k <= Len(table)
    THEN SubSeq(table, 1, k - 1) \o SubSeq(table, k + 1, Len(table))
    ELSE table

\* update_acell taking row_number for the index of the data row, as if the
\* sheet had no header row: a variant the code does not use.
UpdateAcellNoHeader(table, col, row_number, value) ==
    IF row_number >= 1 /\ row_number <= Len(table)
    THEN [table EXCEPT ![row_number] = [@ EXCEPT ![col] = value]]
    ELSE table

\* A row of list_image with every cell empty.
BlankImageRow ==
    [id |-> << >>, name |-> "", chat |-> "", topic |-> << >>, prior |-> "",
     channel |-> << >>]

\* worksheet.update_acell(f"{col}{row_number}", value).  A cell below the
\* last row of list_image is written too: the rows down to it then read as
\* rows of empty cells.
UpdateAcell(table, col, row_number, value) ==
    LET k == row_number - 1
        padded == table \o [j \in 1..(k - Len(table)) |-> BlankImageRow]
    IN  IF k >= 1
        THEN [padded EXCEPT ![k] = [@ EXCEPT ![col] = value]]
        ELSE table

\* Python's first index i (0-based) with Test(data[i]), as a 1-based index;
\* 0 when there is none.
FirstIndex(data, Test(_)) ==
    LET hits == {k \in 1..Len(data) : Test(data[k])} IN
    IF hits = {} THEN 0 ELSE CHOOSE k \in hits : \A j \in hits : k <= j

\* ------------------------------------------------------------------ lookups

\* get_data(worksheet_name): every row below the header, as text.
get_data(worksheet) == worksheet

\* check_topic_exist with the test of the topic cell inverted: a variant the
\* code does not use.
check_topic_exist_empty_topic(image_name, data) ==
    LET Hit(i) == i.name = image_name /\ i.topic = << >>
        k == FirstIndex(data, Hit)
    IN  IF k # 0 THEN [found |-> TRUE, name |-> data[k].prior]
        ELSE [found |-> FALSE, name |-> ""]

\* check_topic_exist(image_name): (True, i[4]) for the first row with that
\* name and a non-empty topic id.
check_topic_exist(image_name, data) ==
    LET Hit(i) == i.name = image_name /\ i.topic # << >>
        k == FirstIndex(data, Hit)
    IN  IF k # 0 THEN [found |-> TRUE, name |-> data[k].prior]
        ELSE [found |-> FALSE, name |-> ""]

\* check_image_by_message_id reading the channel id from the topic column:
\* a variant the code does not use.
check_image_by_message_id_wrong_column(message_id, data) ==
    LET Hit(i) == PyEq(PyStr(i.id), PyStr(Str(message_id)))
        k == FirstIndex(data, Hit)
    IN  IF k # 0
        THEN [exists |-> TRUE, row_idx |-> k - 1, old_text |-> data[k].name,
              channel_id |-> data[k].topic, old_name |-> data[k].prior]
        ELSE [exists |-> FALSE, row_idx |-> 0, old_text |-> "",
              channel_id |-> << >>, old_name |-> ""]

\* check_image_by_message_id(message_id): compares the id cell with
\* str(message_id).  row_idx is Python's 0-based index.  A row of the old
\* structure has no channel column (and possibly no old_name column): the
\* channel id is then "" and the old name is the name.
check_image_by_message_id(message_id, data) ==
    LET Hit(i) == PyEq(PyStr(i.id), PyStr(Str(message_id)))
        k == FirstIndex(data, Hit)
    IN  IF k # 0
        THEN [exists |-> TRUE, row_idx |-> k - 1, old_text |-> data[k].name,
              channel_id |-> IF "channel" \in DOMAIN data[k]
                             THEN data[k].channel ELSE << >>,
              old_name |-> IF "prior" \in DOMAIN data[k]
                           THEN data[k].prior ELSE data[k].name]
        ELSE [exists |-> FALSE, row_idx |-> 0, old_text |-> "",
              channel_id |-> << >>, old_name |-> ""]

\* check_video_exist(video_id): compares the id cell (text) with video_id as
\* the caller passed it.
check_video_exist(video_id, data) ==
    LET Hit(i) == PyEq(PyStr(i.id), video_id)
        k == FirstIndex(data, Hit)
    IN  IF k # 0 THEN [found |-> TRUE, name |-> data[k].name]
        ELSE [found |-> FALSE, name |-> ""]

\* get_topic_id(image_id): the topic cell of the first row with that id text.
get_topic_id(image_id, data) ==
    LET Hit(i) == i.id = image_id
        k == FirstIndex(data, Hit)
    IN  IF k # 0 THEN [found |-> TRUE, topic |-> data[k].topic]
        ELSE [found |-> FALSE, topic |-> << >>]

\* check_output_exist looking in the label column: a variant the code does
\* not use.
check_output_exist_by_label(output_id, data) ==
    LET Hit(i) == i.label = output_id IN FirstIndex(data, Hit) # 0

\* check_output_exist(output_id, data)
check_output_exist(output_id, data) ==
    LET Hit(i) == i.key = output_id IN FirstIndex(data, Hit) # 0

\* update_topic_id(image_id, image_name): writes image_id into column A of
\* the first row named image_name.
update_topic_id(image_id, image_name, table) ==
    LET data == get_data(table)
        Hit(i) == i.name = image_name
        k == FirstIndex(data, Hit)
    IN  IF k # 0
        THEN [table |-> UpdateAcell(table, "id", (k - 1) + 2, Str(image_id)),
              writes |-> 1]
        ELSE [table |-> table, writes |-> 0]

\* delete_image_by_message_id matching every id cell that begins with the
\* id: a variant the code does not use.
delete_image_by_prefix(message_id, table) ==
    LET data == get_data(table)
        Hit(i) == StartsWith(i.id, Str(message_id))
        k == FirstIndex(data, Hit)
    IN  IF k # 0
        THEN [table |-> DeleteRows(table, (k - 1) + 2), success |-> TRUE,
              name |-> data[k].name]
        ELSE [table |-> table, success |-> FALSE, name |-> ""]

\* delete_image_by_message_id(message_id)
delete_image_by_message_id(message_id, table) ==
    LET data == get_data(table)
        Hit(i) == PyEq(PyStr(i.id), PyStr(Str(message_id)))
        k == FirstIndex(data, Hit)
    IN  IF k # 0
        THEN [table |-> DeleteRows(table, (k - 1) + 2), success |-> TRUE,
              name |-> data[k].name]
        ELSE [table |-> table, success |-> FALSE, name |-> ""]

\* delete_video_by_message_id(message_id)
delete_video_by_message_id(message_id, table) ==
    LET data == get_data(table)
        Hit(i) == PyEq(PyStr(i.id), PyStr(Str(message_id)))
        k == FirstIndex(data, Hit)
    IN  IF k # 0
        THEN [table |-> DeleteRows(table, (k - 1) + 2), success |-> TRUE,
              name |-> data[k].name]
        ELSE [table |-> table, success |-> FALSE, name |-> ""]

\* The loop of delete_outputs_by_image_id over one fetch `data`: Python index
\* i runs from len(data) - 1 down to 0 (here k = i + 1), each hit deletes sheet
\* row i + 2 of the live worksheet.
RECURSIVE ScanOutputsReverse(_, _, _, _)
ScanOutputsReverse(data, prefix, k, st) ==
    IF k < 1 THEN st
    ELSE IF StartsWith(data[k].key, prefix)
         THEN ScanOutputsReverse(data, prefix, k - 1,
                 [table |-> DeleteRows(st.table, (k - 1) + 2),
                  count |-> st.count + 1,
                  labels |-> Append(st.labels, data[k].label)])
         ELSE ScanOutputsReverse(data, prefix, k - 1, st)

\* The same loop scanning forward: a variant the code does not use.
RECURSIVE ScanOutputsForward(_, _, _, _)
ScanOutputsForward(data, prefix, k, st) ==
    IF k > Len(data) THEN st
    ELSE IF StartsWith(data[k].key, prefix)
         THEN ScanOutputsForward(data, prefix, k + 1,
                 [table |-> DeleteRows(st.table, (k - 1) + 2),
                  count |-> st.count + 1,
                  labels |-> Append(st.labels, data[k].label)])
         ELSE ScanOutputsForward(data, prefix, k + 1, st)

delete_outputs_forward(image_id, table) ==
    LET data == get_data(table) IN
    ScanOutputsForward(data, image_id \o <<"_">>, 1,
                       [table |-> table, count |-> 0, labels |-> << >>])

\* delete_outputs_by_image_id(image_id): image_id is the id as text.
delete_outputs_by_image_id(image_id, table) ==
    LET data == get_data(table) IN
    ScanOutputsReverse(data, image_id \o <<"_">>, Len(data),
                       [table |-> table, count |-> 0, labels |-> << >>])

\* create_map_user_image(): name -> id text, the first row of a name wins.
create_map_user_image(data) ==
    LET names == {data[k].name : k \in 1..Len(data)} IN
    [n \in names |->
        LET Hit(i) == i.name = n IN data[FirstIndex(data, Hit)].id]

\* create_map_video(): name -> id text, the last row of a name wins.
create_map_video(data) ==
    LET names == {data[k].name : k \in 1..Len(data)} IN
    [n \in names |->
        LET ks == {k \in 1..Len(data) : data[k].name = n}
            k == CHOOSE k \in ks : \A j \in ks : j <= k
        IN  data[k].id]

\* ------------------------------------------------------------------ messaging

\* What the messaging service does with the requests of one handler run:
\*   topic   - the id CreateForumTopicRequest answers, 0 when it fails
\*   channel - the id CreateChannelRequest answers, 0 when it fails
\*   update  - the step of update_channel_info that raises, if it is reached
\* One run of the image handler reaches either the two creation requests or
\* update_channel_info, never both, so failures of the two kinds are not
\* combined.
ImageEnvs ==
    {e \in [topic : TopicIds \cup {0}, channel : ChannelIds \cup {0},
            update : {"none", "entity", "title", "photo"}] :
        e.update = "none" \/ (e.topic # 0 /\ e.channel # 0)}

PyNone == [type |-> "none", val |-> 0]

\* create_forum_topic: the topic id, None on any failure.
create_forum_topic(env) ==
    IF env.topic = 0 THEN PyNone ELSE PyInt(env.topic)

\* create_separate_chat: the channel id, None when the channel request fails
\* (avatar and folder failures are swallowed).
create_separate_chat(env) ==
    IF env.channel = 0 THEN PyNone ELSE PyInt(env.channel)

\* update_channel_info without the comparison of the names: a variant the
\* code does not use.
update_channel_info_always_title(new_name, has_photo, old_name, env) ==
    IF env.update = "entity" THEN [ok |-> FALSE, calls |-> {}]
    ELSE IF env.update = "title"
         THEN [ok |-> FALSE, calls |-> {"EditTitleRequest"}]
         ELSE IF has_photo
              THEN [ok |-> env.update # "photo",
                    calls |-> {"EditTitleRequest", "EditPhotoRequest"}]
              ELSE [ok |-> TRUE, calls |-> {"EditTitleRequest"}]

\* update_channel_info(channel_id, new_name, new_photo_message, old_name):
\* the requests it issues and whether it returned True.  The handler always
\* passes a name for old_name, and a photo message.
update_channel_info(new_name, has_photo, old_name, env) ==
    IF env.update = "entity" THEN [ok |-> FALSE, calls |-> {}]
    ELSE LET title == new_name # old_name
             tcalls == IF title THEN {"EditTitleRequest"} ELSE {}
         IN  IF title /\ env.update = "title"
             THEN [ok |-> FALSE, calls |-> tcalls]
             ELSE IF has_photo
                  THEN [ok |-> env.update # "photo",
                        calls |-> tcalls \cup {"EditPhotoRequest"}]
                  ELSE [ok |-> TRUE, calls |-> tcalls]

\* ------------------------------------------------------------------ handlers

\* handle_image_has_text(event): the new list_image, the requests issued, the
\* reply shown and the number of sheet writes.
handle_image_has_text(message_id, text, table, env) ==
    LET message_text == Lower(text)
        chk == check_image_by_message_id(message_id, get_data(table))
    IN
    IF chk.exists
    THEN \* an edit of a registered message
         IF chk.channel_id # << >>
         THEN LET upd == update_channel_info(message_text, TRUE, chk.old_text, env)
              IN  IF upd.ok
                  THEN [table |->
                          UpdateAcell(
                            UpdateAcell(table, "name", chk.row_idx + 2, message_text),
                            "prior", chk.row_idx + 2, message_text),
                        calls |-> upd.calls,
                        notice |-> IF chk.old_text # message_text
                                   THEN "renamed" ELSE "photo updated",
                        writes |-> 2]
                  ELSE [table |-> table, calls |-> upd.calls,
                        notice |-> "failed to update channel", writes |-> 0]
         ELSE [table |-> table, calls |-> {},
               notice |-> "no channel associated", writes |-> 0]
    ELSE
    LET exist_topic == check_topic_exist(message_text, get_data(table)) IN
    IF exist_topic.found
    THEN LET upd == update_topic_id(message_id, message_text, table)
         IN  [table |-> upd.table, calls |-> {},
              notice |-> "topic already exist and updated the id",
              writes |-> upd.writes]
    ELSE \* a new name: topic and channel are created side by side
    LET topic_id == create_forum_topic(env)
        channel_id == create_separate_chat(env)
        calls == {"CreateForumTopicRequest", "CreateChannelRequest"}
    IN  IF topic_id # PyNone
        THEN [table |->
                Append(table,
                       ImageRow(message_id, message_text, topic_id.val,
                                IF channel_id # PyNone THEN Str(channel_id.val)
                                ELSE << >>)),
              calls |-> calls,
              notice |-> IF channel_id # PyNone
                         THEN "topic and channel created"
                         ELSE "topic created (channel failed)",
              writes |-> 1]
        ELSE [table |-> table, calls |-> calls, notice |-> "", writes |-> 0]

\* handle_image_no_text(event)
handle_image_no_text(table) ==
    [table |-> table, calls |-> {},
     notice |-> "please update the caption for the image", writes |-> 0]

\* The lookup handle_input_video_has_text makes: event.message.id is an int.
video_exist(message_id, table) ==
    check_video_exist(PyInt(message_id), get_data(table))

\* handle_input_video_has_text(event)
handle_input_video_has_text(message_id, text, table) ==
    LET message_text == Lower(text)
        exist == video_exist(message_id, table)
    IN  IF exist.found
        THEN [table |-> table, calls |-> {},
              notice |-> "video already exist", writes |-> 0]
        ELSE [table |-> Append(table, VideoRow(message_id, message_text)),
              calls |-> {}, notice |-> "video is added", writes |-> 1]

\* handle_input_video_no_text(event)
handle_input_video_no_text(table) ==
    [table |-> table, calls |-> {},
     notice |-> "please update the caption for the video", writes |-> 0]

\* handle_message_deleted(event): the loop over event.deleted_ids, image
\* first, then video; an image hit cascades to its outputs.
RECURSIVE DeletedLoop(_, _, _)
DeletedLoop(deleted_ids, n, st) ==
    IF n > Len(deleted_ids) THEN st
    ELSE
    LET message_id == deleted_ids[n]
        di == delete_image_by_message_id(message_id, st.image)
    IN  IF di.success
        THEN LET do == delete_outputs_by_image_id(Str(message_id), st.output)
             IN  DeletedLoop(deleted_ids, n + 1,
                    [st EXCEPT !.image = di.table, !.output = do.table,
                               !.deleted_count = @ + 1,
                               !.writes = @ + 1 + do.count])
        ELSE LET dv == delete_video_by_message_id(message_id, st.video)
             IN  IF dv.success
                 THEN DeletedLoop(deleted_ids, n + 1,
                        [st EXCEPT !.video = dv.table,
                                   !.deleted_count = @ + 1,
                                   !.writes = @ + 1])
                 ELSE DeletedLoop(deleted_ids, n + 1, st)

\* str.endswith
EndsWith(s, suffix) ==
    /\ Len(suffix) <= Len(s)
    /\ SubSeq(s, Len(s) - Len(suffix) + 1, Len(s)) = suffix

\* handle_message_deleted with a cascade for videos as well, removing the
\* outputs whose key ends with the id of a deleted video: a variant the code
\* does not use.
handle_message_deleted_cascading_videos(deleted_ids, image, video, output) ==
    LET r == DeletedLoop(deleted_ids, 1,
                         [image |-> image, video |-> video, output |-> output,
                          deleted_count |-> 0, writes |-> 0])
        Gone(d) == \E k \in 1..Len(video) : video[k].id = Str(d)
        Stays(row) ==
            \A n \in DOMAIN deleted_ids :
                Gone(deleted_ids[n])
                => ~EndsWith(row.key, <<"_">> \o Str(deleted_ids[n]))
    IN  [r EXCEPT !.output = SelectSeq(r.output, Stays)]

handle_message_deleted(deleted_ids, image, video, output) ==
    DeletedLoop(deleted_ids, 1,
                [image |-> image, video |-> video, output |-> output,
                 deleted_count |-> 0, writes |-> 0])

\* ------------------------------------------------------------------ /domany

\* What happens to one combination of a batch run that is not skipped:
\*   raises - the step of the try block that raises, "none" when no step does
\*            ("notify" is the completion notice, "append" is append_row)
\*   file   - a file already lies at the output path, so the render step is
\*            not run
\*   report - the failure notice sent by the except block raises as well
Fates ==
    {f \in [raises : {"none", "download", "render", "upload", "notify", "append"},
            file : BOOLEAN, report : BOOLEAN] :
        /\ f.file => f.raises = "none"
        /\ f.report => f.raises # "none"}

\* Name lists a /domany command carries; "v2" is a name no video has.
BatchImageNames == {<<"alice">>, <<"alicia">>, <<"alice", "alicia">>}
\* A list that names one image twice.
RepeatedImageNames == {<<"alice", "alice">>}
BatchVideoNames == {<<"v1">>, <<"v1", "v2">>}

\* The rows the existence check of a combination is given, read from the
\* live worksheet at each check: a variant the code does not use.
existence_data_live(st) == get_data(st.output)

\* The rows the existence check of a combination is given: current_data,
\* which domany read before the loops.
existence_data(st) == st.current_data

\* One pass of the body of the inner loop for (image_name, video_name).
\* st.aborted is set when an exception leaves domany.  st.passes notes the
\* pair and the counters at the end of each pass, st.updates the texts the
\* tracking message is edited to: the counters, the failure list, and
\* whether the text names the current pair.
DomanyCombination(st, image_name, video_name, fates) ==
    LET progress == st.progress + 1
        combo_name == ComboName(image_name, video_name)
        st1 == [st EXCEPT !.progress = progress]
        Pass(s) ==
            [s EXCEPT !.passes =
                Append(@, [image |-> image_name, video |-> video_name,
                           progress |-> s.progress, success |-> s.success,
                           skip |-> s.skip, fail |-> Len(s.fail_list)])]
        Update(s, current) ==
            [progress |-> s.progress, success |-> s.success, skip |-> s.skip,
             fail |-> Len(s.fail_list), failed |-> s.fail_list,
             current |-> current]
        \* finally: the tracking message is edited, also on skip (continue)
        \* and when the except block raises
        Finally(s) == Pass([s EXCEPT !.updates = Append(@, Update(s, FALSE))])
    IN
    IF image_name \notin DOMAIN st.image_map \/ video_name \notin DOMAIN st.video_map
    THEN \* KeyError outside the try block
         Pass([st1 EXCEPT !.aborted = TRUE])
    ELSE
    LET image_id == st.image_map[image_name]
        video_id == st.video_map[video_name]
        key == OutputKey(image_id, video_id)
        fate == fates[st.taken + 1]
    IN
    IF check_output_exist(key, existence_data(st))
    THEN Finally([st1 EXCEPT !.skip = @ + 1])
    ELSE
    LET st2 == [st1 EXCEPT !.taken = @ + 1,
                           !.updates = Append(@, Update(st1, TRUE))]
        \* except Exception: the failure notice is sent, then the label is
        \* appended to fail_list; a notice that raises leaves domany.
        Failed(s) == Finally(IF fate.report THEN [s EXCEPT !.aborted = TRUE]
                             ELSE [s EXCEPT !.fail_list = Append(@, combo_name)])
    IN
    IF fate.raises = "download" THEN Failed(st2)
    ELSE IF ~fate.file /\ fate.raises = "render"
         THEN Failed([st2 EXCEPT !.renders = Append(@, key)])
    ELSE
    LET rendered == IF fate.file THEN st2
                    ELSE [st2 EXCEPT !.renders = Append(@, key)]
    IN
    IF fate.raises = "upload" THEN Failed(rendered)
    ELSE
    LET sent == [rendered EXCEPT !.delivered = Append(@, key)] IN
    IF fate.raises \in {"notify", "append"} THEN Failed(sent)
    ELSE Finally([sent EXCEPT !.output = Append(@, OutputRow(key, combo_name)),
                              !.writes = @ + 1,
                              !.success = @ + 1])

\* for video_name in video_names: ...
RECURSIVE DomanyVideos(_, _, _, _, _)
DomanyVideos(st, image_name, video_names, j, fates) ==
    IF st.aborted \/ j > Len(video_names) THEN st
    ELSE DomanyVideos(DomanyCombination(st, image_name, video_names[j], fates),
                      image_name, video_names, j + 1, fates)

\* for image_name in image_names: ...
RECURSIVE DomanyImages(_, _, _, _, _)
DomanyImages(st, image_names, video_names, i, fates) ==
    IF st.aborted \/ i > Len(image_names) THEN st
    ELSE DomanyImages(DomanyVideos(st, image_names[i], video_names, 1, fates),
                      image_names, video_names, i + 1, fates)

\* The state of domany before the loops: the counters are reset, the maps
\* and the list_output snapshot are read once.
DomanyStart(image, video, output) ==
    [image_map |-> create_map_user_image(get_data(image)),
     video_map |-> create_map_video(get_data(video)),
     current_data |-> get_data(output),
     output |-> output,
     progress |-> 0, success |-> 0, skip |-> 0, fail_list |-> << >>,
     renders |-> << >>, delivered |-> << >>, writes |-> 0,
     passes |-> << >>, updates |-> << >>,
     taken |-> 0, aborted |-> FALSE]

\* The names of a list in the order of their rows in the worksheet, names
\* without a row last.
LedgerOrder(names, table) ==
    LET Key(n) == LET Hit(i) == i.name = names[n]
                      k == FirstIndex(table, Hit)
                  IN  IF k = 0 THEN Len(table) + 1 ELSE k
        Before(a, b) == Key(a) < Key(b) \/ (Key(a) = Key(b) /\ a < b)
        Rank(n) == Cardinality({m \in DOMAIN names : Before(m, n)}) + 1
    IN  [r \in DOMAIN names |-> names[CHOOSE n \in DOMAIN names : Rank(n) = r]]

\* domany going through the images in the order of list_image: a variant
\* the code does not use.
domany_in_ledger_order(image_names, video_names, image, video, output, fates) ==
    DomanyImages(DomanyStart(image, video, output),
                 LedgerOrder(image_names, image), video_names, 1, fates)

\* domany(event): the cross product is processed, the images in the outer
\* loop and the videos in the inner loop, in the order of the command.
domany(image_names, video_names, image, video, output, fates) ==
    DomanyImages(DomanyStart(image, video, output),
                 image_names, video_names, 1, fates)

\* The number of combinations of a run that get past the existence check:
\* it depends on the names and the sheet only, not on what happens to them.
FatesNeeded(image_names, video_names, image, video, output) ==
    LET ok == [raises |-> "none", file |-> FALSE, report |-> FALSE] IN
    domany(image_names, video_names, image, video, output,
           [k \in 1..(Len(image_names) * Len(video_names)) |-> ok]).taken

\* ------------------------------------------------------------------ commands

\* delete_image_command(event): the first row named image_name and the
\* outputs of its id.
delete_image_command(name, image, output) ==
    LET image_name == Strip(Lower(name))
        data == get_data(image)
        Hit(i) == i.name = image_name
        k == FirstIndex(data, Hit)
    IN  IF k # 0
        THEN LET do == delete_outputs_by_image_id(data[k].id, output)
             IN  [image |-> DeleteRows(image, (k - 1) + 2), output |-> do.table,
                  notice |-> "deleted image", writes |-> 1 + do.count]
        ELSE [image |-> image, output |-> output,
              notice |-> "image not found", writes |-> 0]

\* delete_video_command(event)
delete_video_command(name, video) ==
    LET video_name == Strip(Lower(name))
        data == get_data(video)
        Hit(i) == i.name = video_name
        k == FirstIndex(data, Hit)
    IN  IF k # 0
        THEN [video |-> DeleteRows(video, (k - 1) + 2),
              notice |-> "deleted video", writes |-> 1]
        ELSE [video |-> video, notice |-> "video not found", writes |-> 0]

\* ---------------------------------------------------------- the store's rejections
\* The same handlers with a store that rejects one write request: `reject`
\* is the ordinal, within one handler run, of the write request (append_row,
\* update_acell, delete_rows) that raises; 0 when none does.  `rejected`
\* tells whether the run reached that request, `raised` whether the
\* exception left the handler.

\* handle_image_has_text: the two update_acell calls of the edit path and the
\* append_row of the creation path are not guarded, update_topic_id catches
\* the exception of its update_acell and returns False, which the handler
\* does not look at.
handle_image_has_text_rejecting(message_id, text, table, env, reject) ==
    LET r == handle_image_has_text(message_id, text, table, env)
        chk == check_image_by_message_id(message_id, get_data(table))
        out == [table |-> r.table, calls |-> r.calls, notice |-> r.notice,
                rejected |-> FALSE, raised |-> FALSE]
    IN  IF reject = 0 \/ reject > r.writes THEN out
        ELSE IF r.notice = "topic already exist and updated the id"
             THEN [out EXCEPT !.table = table, !.rejected = TRUE]
        ELSE IF r.notice \in {"renamed", "photo updated"}
             THEN [out EXCEPT
                     !.table = IF reject = 1 THEN table
                               ELSE UpdateAcell(table, "name", chk.row_idx + 2,
                                                Lower(text)),
                     !.notice = "raised", !.rejected = TRUE, !.raised = TRUE]
        ELSE [out EXCEPT !.table = table, !.notice = "raised",
                         !.rejected = TRUE, !.raised = TRUE]

\* new_photo_handler, faces topic, with such a store
new_photo_faces_rejecting(message_id, text, table, env, reject) ==
    IF text # ""
    THEN handle_image_has_text_rejecting(message_id, text, table, env, reject)
    ELSE [table |-> table, calls |-> {},
          notice |-> "please update the caption for the image",
          rejected |-> FALSE, raised |-> FALSE]

\* The loop of delete_outputs_by_image_id with such a store; st.attempts
\* counts the write requests of the handler run so far.  A rejected
\* delete_rows ends the loop in the except clause, which returns (0, []).
RECURSIVE ScanOutputsRejecting(_, _, _, _, _)
ScanOutputsRejecting(data, prefix, k, st, reject) ==
    IF k < 1 THEN st
    ELSE IF StartsWith(data[k].key, prefix)
         THEN IF st.attempts + 1 = reject
              THEN [st EXCEPT !.attempts = @ + 1, !.count = 0,
                              !.labels = << >>, !.rejected = TRUE]
              ELSE ScanOutputsRejecting(data, prefix, k - 1,
                      [st EXCEPT !.table = DeleteRows(@, (k - 1) + 2),
                                 !.attempts = @ + 1,
                                 !.count = @ + 1,
                                 !.labels = Append(@, data[k].label)],
                      reject)
         ELSE ScanOutputsRejecting(data, prefix, k - 1, st, reject)

\* delete_outputs_by_image_id(image_id) with such a store, `attempts` write
\* requests having been made before it is called.
delete_outputs_by_image_id_rejecting(image_id, table, attempts, reject) ==
    LET data == get_data(table) IN
    ScanOutputsRejecting(data, image_id \o <<"_">>, Len(data),
                         [table |-> table, count |-> 0, labels |-> << >>,
                          attempts |-> attempts, rejected |-> FALSE],
                         reject)

\* delete_image_by_message_id / delete_video_by_message_id with such a
\* store: a rejected delete_rows is caught and (False, None) is returned.
delete_row_by_message_id_rejecting(message_id, table, attempts, reject) ==
    LET data == get_data(table)
        Hit(i) == PyEq(PyStr(i.id), PyStr(Str(message_id)))
        k == FirstIndex(data, Hit)
    IN  IF k = 0
        THEN [table |-> table, success |-> FALSE, attempts |-> attempts,
              rejected |-> FALSE]
        ELSE IF attempts + 1 = reject
             THEN [table |-> table, success |-> FALSE,
                   attempts |-> attempts + 1, rejected |-> TRUE]
             ELSE [table |-> DeleteRows(table, (k - 1) + 2), success |-> TRUE,
                   attempts |-> attempts + 1, rejected |-> FALSE]

\* handle_message_deleted with such a store
RECURSIVE DeletedLoopRejecting(_, _, _, _)
DeletedLoopRejecting(deleted_ids, n, st, reject) ==
    IF n > Len(deleted_ids) THEN st
    ELSE
    LET message_id == deleted_ids[n]
        di == delete_row_by_message_id_rejecting(message_id, st.image,
                                                 st.attempts, reject)
    IN  IF di.success
        THEN LET do == delete_outputs_by_image_id_rejecting(
                           Str(message_id), st.output, di.attempts, reject)
             IN  DeletedLoopRejecting(deleted_ids, n + 1,
                    [st EXCEPT !.image = di.table, !.output = do.table,
                               !.deleted_count = @ + 1,
                               !.attempts = do.attempts,
                               !.rejected = @ \/ do.rejected],
                    reject)
        ELSE LET dv == delete_row_by_message_id_rejecting(
                           message_id, st.video, di.attempts, reject)
             IN  DeletedLoopRejecting(deleted_ids, n + 1,
                    [st EXCEPT !.video = dv.table,
                               !.deleted_count =
                                   IF dv.success THEN @ + 1 ELSE @,
                               !.attempts = dv.attempts,
                               !.rejected = @ \/ di.rejected \/ dv.rejected],
                    reject)

handle_message_deleted_rejecting(deleted_ids, image, video, output, reject) ==
    DeletedLoopRejecting(deleted_ids, 1,
                         [image |-> image, video |-> video, output |-> output,
                          deleted_count |-> 0, attempts |-> 0,
                          rejected |-> FALSE],
                         reject)

\* ---------------------------------------------------------- the face enhancer

\* threading.Semaphore(): the counter starts at 1.
SemaphoreValue == 1
\* The threads that call enhance_face.
Threads == 1..MaxThreads

\* with THREAD_SEMAPHORE releasing only when the body returned: a variant
\* the code does not use.
semaphore_exit_on_return(value, outcome) ==
    IF outcome = "returned" THEN value + 1 ELSE value

\* The end of the with block: the semaphore is released whether the body
\* returned or raised.
semaphore_exit(value, outcome) == value + 1

\* ------------------------------------------------------------------ actions

\* new_photo_handler with every caption routed to handle_image_has_text: a
\* variant the code does not use.
new_photo_faces_unchecked(message_id, text, table, env) ==
    handle_image_has_text(message_id, text, table, env)

\* new_photo_handler, a photo in the faces topic: with a caption the image is
\* registered, without one the sender is prompted.
new_photo_faces(message_id, text, table, env) ==
    IF text # ""
    THEN handle_image_has_text(message_id, text, table, env)
    ELSE handle_image_no_text(table)

\* new_photo_handler, a video in the vid topic
new_photo_vid(message_id, text, table) ==
    IF text # ""
    THEN handle_input_video_has_text(message_id, text, table)
    ELSE handle_input_video_no_text(table)

\* message_edited_handler where an edit to the name of a row stored under
\* another id hands that row to the edited message: a variant the code does
\* not use.
message_edited_faces_reusing(message_id, text, table, env) ==
    LET Mine(i) == i.id = Str(message_id)
        Theirs(i) == i.name = Lower(text) /\ i.id # Str(message_id)
    IN  IF text = ""
        THEN [table |-> table, calls |-> {}, notice |-> "", writes |-> 0]
        ELSE IF FirstIndex(table, Mine) # 0 /\ FirstIndex(table, Theirs) # 0
             THEN [table |-> UpdateAcell(table, "id",
                                         FirstIndex(table, Theirs) + 1,
                                         Str(message_id)),
                   calls |-> {}, notice |-> "renamed", writes |-> 1]
             ELSE handle_image_has_text(message_id, text, table, env)

\* message_edited_handler, faces topic: only a photo with text is handled
message_edited_faces(message_id, text, table, env) ==
    IF text # ""
    THEN handle_image_has_text(message_id, text, table, env)
    ELSE [table |-> table, calls |-> {}, notice |-> "", writes |-> 0]

\* message_edited_handler, vid topic: only a video with text is handled
message_edited_vid(message_id, text, table) ==
    IF text # ""
    THEN handle_input_video_has_text(message_id, text, table)
    ELSE [table |-> table, calls |-> {}, notice |-> "", writes |-> 0]

\* The handler that ran last, whether its message carried a caption, and the
\* reply it gave.
Handled(op, caption, notice) ==
    [op |-> op, caption |-> caption, notice |-> notice]

Init ==
    /\ list_image = << >>
    /\ list_video = << >>
    /\ list_output = << >>
    /\ last = Handled("start", FALSE, "")
    /\ suspended = {}
    /\ pc = [t \in Threads |-> "idle"]
    /\ permits = SemaphoreValue

NewPhotoStep(message_id, text, env) ==
    LET r == new_photo_faces(message_id, text, list_image, env)
    IN  /\ list_image' = r.table
        /\ UNCHANGED <<suspended, pc, permits>>
        /\ last' = Handled("new_photo", text # "", r.notice)
        /\ UNCHANGED <<list_video, list_output>>

NewVideoStep(message_id, text) ==
    LET r == new_photo_vid(message_id, text, list_video)
    IN  /\ Len(r.table) <= MaxVideoRows
        /\ list_video' = r.table
        /\ UNCHANGED <<suspended, pc, permits>>
        /\ last' = Handled("new_video", text # "", r.notice)
        /\ UNCHANGED <<list_image, list_output>>

EditedPhotoStep(message_id, text, env) ==
    LET r == message_edited_faces(message_id, text, list_image, env)
    IN  /\ list_image' = r.table
        /\ UNCHANGED <<suspended, pc, permits>>
        /\ last' = Handled("edited_photo", text # "", r.notice)
        /\ UNCHANGED <<list_video, list_output>>

EditedVideoStep(message_id, text) ==
    LET r == message_edited_vid(message_id, text, list_video)
    IN  /\ Len(r.table) <= MaxVideoRows
        /\ list_video' = r.table
        /\ UNCHANGED <<suspended, pc, permits>>
        /\ last' = Handled("edited_video", text # "", r.notice)
        /\ UNCHANGED <<list_image, list_output>>

\* message_deleted_handler
MessageDeletedStep(deleted_ids) ==
    LET r == handle_message_deleted(deleted_ids, list_image, list_video,
                                    list_output)
    IN  /\ list_image' = r.image
        /\ list_video' = r.video
        /\ list_output' = r.output
        /\ UNCHANGED <<suspended, pc, permits>>
        /\ last' = Handled("deleted", FALSE,
                           IF r.deleted_count > 0 THEN "processed"
                           ELSE "no matching entries")

\* domany_handler
DomanyStep(image_names, video_names, fates) ==
    LET r == domany(image_names, video_names, list_image, list_video,
                    list_output, fates)
    IN  /\ Len(r.output) <= MaxOutputRows
        /\ list_output' = r.output
        /\ UNCHANGED <<suspended, pc, permits>>
        /\ last' = Handled("domany", TRUE,
                           IF r.aborted THEN "aborted" ELSE "completed")
        /\ UNCHANGED <<list_image, list_video>>

\* delete_image_command
DeleteImageCommandStep(name) ==
    LET r == delete_image_command(name, list_image, list_output)
    IN  /\ list_image' = r.image
        /\ list_output' = r.output
        /\ UNCHANGED <<suspended, pc, permits>>
        /\ last' = Handled("delete_image", TRUE, r.notice)
        /\ UNCHANGED list_video

\* delete_video_command
DeleteVideoCommandStep(name) ==
    LET r == delete_video_command(name, list_video)
    IN  /\ list_video' = r.video
        /\ UNCHANGED <<suspended, pc, permits>>
        /\ last' = Handled("delete_video", TRUE, r.notice)
        /\ UNCHANGED <<list_image, list_output>>

\* The id lists of at most n ids a MessageDeleted event can carry.
DeletedIdLists(ids, n) == UNION {[1..k -> ids] : k \in 1..n}

\* The fates of the combinations of one run that get past the existence check.
BatchFates(image_names, video_names, F) ==
    [1..FatesNeeded(image_names, video_names, list_image, list_video,
                    list_output) -> F]

\* ---------------------------------------------------------- the whole bot
\* Every handler, where each photo message keeps its caption, captions are in
\* lower case and the messaging service answers every request of the
\* registration handlers.

NominalPhotos == {<<1, "alice">>, <<11, "alicia">>}
NominalVideos == {<<2, "v1">>, <<12, "v1">>}
NominalEnvs == {e \in ImageEnvs : e.topic # 0 /\ e.channel # 0 /\ e.update = "none"}
NominalFates ==
    {f \in Fates : ~f.file /\ ~f.report /\ f.raises \in {"none", "download"}}

NewPhoto ==
    \E m \in NominalPhotos, env \in NominalEnvs : NewPhotoStep(m[1], m[2], env)

NewVideo ==
    \E m \in NominalVideos : NewVideoStep(m[1], m[2])

EditedPhoto ==
    \E m \in NominalPhotos, env \in NominalEnvs : EditedPhotoStep(m[1], m[2], env)

EditedVideo ==
    \E m \in NominalVideos : EditedVideoStep(m[1], m[2])

MessageDeleted ==
    \E deleted_ids \in DeletedIdLists(MsgIds, MaxDeleted) :
        MessageDeletedStep(deleted_ids)

Domany ==
    \E image_names \in BatchImageNames, video_names \in BatchVideoNames :
        \E fates \in BatchFates(image_names, video_names, NominalFates) :
            DomanyStep(image_names, video_names, fates)

DeleteImageCommand ==
    \E m \in NominalPhotos : DeleteImageCommandStep(m[2])

DeleteVideoCommand ==
    \E m \in NominalVideos : DeleteVideoCommandStep(m[2])

Next ==
    \/ NewPhoto
    \/ NewVideo
    \/ EditedPhoto
    \/ EditedVideo
    \/ MessageDeleted
    \/ Domany
    \/ DeleteImageCommand
    \/ DeleteVideoCommand

Spec == Init /\ [][Next]_vars

\* ---------------------------------------------------------- the registry
\* The registration, edit and deletion handlers alone, with every caption
\* and every answer of the messaging service; list_output stays empty.

RegNewPhoto ==
    \E message_id \in ImageMsgIds, text \in ImageTexts, env \in ImageEnvs :
        NewPhotoStep(message_id, text, env)

RegNewVideo ==
    \E message_id \in VideoMsgIds, text \in VideoTexts :
        NewVideoStep(message_id, text)

RegEditedPhoto ==
    \E message_id \in ImageMsgIds, text \in ImageTexts, env \in ImageEnvs :
        EditedPhotoStep(message_id, text, env)

RegEditedVideo ==
    \E message_id \in VideoMsgIds, text \in VideoTexts :
        EditedVideoStep(message_id, text)

RegMessageDeleted ==
    \E deleted_ids \in DeletedIdLists(MsgIds, MaxDeleted) :
        MessageDeletedStep(deleted_ids)

\* The names a /delete_image command carries, one of them with blanks
\* around it.
CommandImageNames == (ImageTexts \ {""}) \cup {" alice "}

RegDeleteImageCommand ==
    \E name \in CommandImageNames : DeleteImageCommandStep(name)

RegDeleteVideoCommand ==
    \E name \in VideoTexts \ {""} : DeleteVideoCommandStep(name)

NextRegistry ==
    \/ RegNewPhoto
    \/ RegNewVideo
    \/ RegEditedPhoto
    \/ RegEditedVideo
    \/ RegMessageDeleted
    \/ RegDeleteImageCommand
    \/ RegDeleteVideoCommand

SpecRegistry == Init /\ [][NextRegistry]_vars

\* ---------------------------------------------------------- the batch runs
\* Registration and image deletion with nominal inputs, and /domany with
\* every fate of a combination and with a name list that repeats a name.

BatchNewPhoto ==
    \E m \in NominalPhotos, env \in NominalEnvs : NewPhotoStep(m[1], m[2], env)

BatchNewVideo ==
    \E m \in NominalVideos : NewVideoStep(m[1], m[2])

\* Deletion of photo messages, which cascades to list_output.
BatchMessageDeleted ==
    \E deleted_ids \in DeletedIdLists(ImageMsgIds, MaxDeleted) :
        MessageDeletedStep(deleted_ids)

\* The failure notice is one statement whichever step raised: the runs
\* combine its failure with one raising step, the download.
BatchRunFates == {f \in Fates : f.report => f.raises = "download"}

BatchDomany ==
    \E image_names \in BatchImageNames \cup RepeatedImageNames,
       video_names \in BatchVideoNames :
        \E fates \in BatchFates(image_names, video_names, BatchRunFates) :
            DomanyStep(image_names, video_names, fates)

NextBatch ==
    \/ BatchNewPhoto
    \/ BatchNewVideo
    \/ BatchMessageDeleted
    \/ BatchDomany

SpecBatch == Init /\ [][NextBatch]_vars

\* ---------------------------------------------------------- the rejecting store
\* Registration, batch runs and deletion where the store rejects one write
\* request of a photo or deletion handler run.

RejectingNewPhotoStep(message_id, text, env, reject) ==
    LET r == new_photo_faces_rejecting(message_id, text, list_image, env, reject)
    IN  /\ list_image' = r.table
        /\ UNCHANGED <<suspended, pc, permits>>
        /\ last' = Handled("new_photo", text # "", r.notice)
        /\ UNCHANGED <<list_video, list_output>>

RejectingDeletedStep(deleted_ids, reject) ==
    LET r == handle_message_deleted_rejecting(deleted_ids, list_image,
                                              list_video, list_output, reject)
    IN  /\ list_image' = r.image
        /\ list_video' = r.video
        /\ list_output' = r.output
        /\ UNCHANGED <<suspended, pc, permits>>
        /\ last' = Handled("deleted", FALSE,
                           IF r.deleted_count > 0 THEN "processed"
                           ELSE "no matching entries")

\* Photo messages: one name, carried by two messages.
RejectingPhotos == {<<1, "alice">>, <<11, "alice">>}
\* The ordinals of the write request a handler run can see rejected.
RejectOrdinals == 0..(MaxOutputRows + 1)

RejectingNewPhoto ==
    \E m \in RejectingPhotos, env \in NominalEnvs, reject \in RejectOrdinals :
        RejectingNewPhotoStep(m[1], m[2], env, reject)

\* Two video messages of one name, and the batch's list of that name.
RejectingVideos == NominalVideos
RejectingVideoNames == {<<"v1">>}
RejectingImageNames == {<<"alice">>}

RejectingNewVideo ==
    \E m \in RejectingVideos : NewVideoStep(m[1], m[2])

RejectingDomany ==
    \E image_names \in RejectingImageNames, video_names \in RejectingVideoNames :
        \E fates \in BatchFates(image_names, video_names, NominalFates) :
            DomanyStep(image_names, video_names, fates)

RejectingMessageDeleted ==
    \E deleted_ids \in DeletedIdLists(ImageMsgIds \cup OtherMsgIds, MaxDeleted),
       reject \in RejectOrdinals :
        RejectingDeletedStep(deleted_ids, reject)

NextRejecting ==
    \/ RejectingNewPhoto
    \/ RejectingNewVideo
    \/ RejectingDomany
    \/ RejectingMessageDeleted

SpecRejecting == Init /\ [][NextRejecting]_vars

\* ---------------------------------------------------------- the suspended handlers

\* The client starts a handler for every update without waiting for the
\* handlers still running, so a handler that waits at an await leaves the
\* sheet to the others.  The sheet calls do not wait: a handler runs alone
\* from one await to the next.

\* The answer of a request that is still in flight.
Pending == [type |-> "pending", val |-> 0]

\* A run of handle_image_has_text waiting at an await:
\*   edit      - in update_channel_info, with the row index and the name
\*               check_image_by_message_id returned
\*   collision - in event.reply, before update_topic_id
\*   create    - in asyncio.gather, with the answers received so far
Task(kind, message_id, text, row_idx, old_text, topic, channel) ==
    [kind |-> kind, message_id |-> message_id, text |-> text,
     row_idx |-> row_idx, old_text |-> old_text, topic |-> topic,
     channel |-> channel]

\* handle_image_has_text from its start to its first await: the run that is
\* left waiting, or the reply of a run that ends without a request.
image_handler_start(message_id, text, table) ==
    LET message_text == Lower(text)
        chk == check_image_by_message_id(message_id, get_data(table))
    IN  IF chk.exists
        THEN IF chk.channel_id # << >>
             THEN [waits |-> TRUE, notice |-> "",
                   task |-> Task("edit", message_id, message_text, chk.row_idx,
                                 chk.old_text, PyNone, PyNone)]
             ELSE [waits |-> FALSE, notice |-> "no channel associated",
                   task |-> Task("edit", message_id, message_text, chk.row_idx,
                                 chk.old_text, PyNone, PyNone)]
        ELSE IF check_topic_exist(message_text, get_data(table)).found
             THEN [waits |-> TRUE, notice |-> "",
                   task |-> Task("collision", message_id, message_text, 0, "",
                                 PyNone, PyNone)]
             ELSE [waits |-> TRUE, notice |-> "",
                   task |-> Task("create", message_id, message_text, 0, "",
                                 Pending, Pending)]

\* asyncio.gather returning as soon as one of the two tasks has finished: a
\* variant the code does not use.
gather_first_done(t) == t.topic # Pending \/ t.channel # Pending

\* await asyncio.gather(topic_task, channel_task) returns when both tasks
\* have finished.
gather_done(t) == t.topic # Pending /\ t.channel # Pending

\* handle_image_has_text after asyncio.gather: the row is appended when a
\* topic id came back.
image_handler_joined(t, table) ==
    IF t.topic.type = "int"
    THEN [table |->
            Append(table,
                   ImageRow(t.message_id, t.text, t.topic.val,
                            IF t.channel.type = "int" THEN Str(t.channel.val)
                            ELSE << >>)),
          notice |-> IF t.channel.type = "int"
                     THEN "topic and channel created"
                     ELSE "topic created (channel failed)"]
    ELSE [table |-> table, notice |-> ""]

\* handle_image_has_text after update_channel_info: the two cells are written
\* at the row index found before the await.
image_handler_updated(t, table, env) ==
    LET upd == update_channel_info(t.text, TRUE, t.old_text, env) IN
    IF upd.ok
    THEN [table |->
            UpdateAcell(UpdateAcell(table, "name", t.row_idx + 2, t.text),
                        "prior", t.row_idx + 2, t.text),
          ok |-> TRUE,
          notice |-> IF t.old_text # t.text THEN "renamed" ELSE "photo updated"]
    ELSE [table |-> table, ok |-> FALSE, notice |-> "failed to update channel"]

\* handle_image_has_text after the reply of the collision path:
\* update_topic_id reads list_image again.
image_handler_replied(t, table) ==
    [table |-> update_topic_id(t.message_id, t.text, table).table,
     notice |-> "topic already exist and updated the id"]

\* A photo message with a caption arrives or is edited, and its handler runs
\* to its first await.  One message has one handler waiting at a time.
TaskPhotoStep(message_id, text) ==
    LET r == image_handler_start(message_id, text, list_image) IN
    /\ \A t \in suspended : t.message_id # message_id
    /\ suspended' = IF r.waits THEN suspended \cup {r.task} ELSE suspended
    /\ last' = IF r.waits THEN last ELSE Handled("photo", TRUE, r.notice)
    /\ UNCHANGED <<list_image, list_video, list_output, pc, permits>>

\* CreateForumTopicRequest is answered.
TaskTopicStep(t, env) ==
    /\ t.kind = "create"
    /\ t.topic = Pending
    /\ suspended' = (suspended \ {t})
                        \cup {[t EXCEPT !.topic = create_forum_topic(env)]}
    /\ UNCHANGED <<list_image, list_video, list_output, last, pc, permits>>

\* CreateChannelRequest is answered.
TaskChannelStep(t, env) ==
    /\ t.kind = "create"
    /\ t.channel = Pending
    /\ suspended' = (suspended \ {t})
                        \cup {[t EXCEPT !.channel = create_separate_chat(env)]}
    /\ UNCHANGED <<list_image, list_video, list_output, last, pc, permits>>

\* asyncio.gather returns and the creation path runs to its end.
TaskJoinStep(t) ==
    LET r == image_handler_joined(t, list_image) IN
    /\ t.kind = "create"
    /\ gather_done(t)
    /\ Len(r.table) <= MaxImageRows
    /\ list_image' = r.table
    /\ suspended' = suspended \ {t}
    /\ last' = Handled("photo", TRUE, r.notice)
    /\ UNCHANGED <<list_video, list_output, pc, permits>>

\* update_channel_info returns and the edit path runs to its end.
TaskUpdatedStep(t, env) ==
    LET r == image_handler_updated(t, list_image, env) IN
    /\ t.kind = "edit"
    /\ Len(r.table) <= MaxImageRows
    /\ list_image' = r.table
    /\ suspended' = suspended \ {t}
    /\ last' = Handled("photo", TRUE, r.notice)
    /\ UNCHANGED <<list_video, list_output, pc, permits>>

\* event.reply returns and the collision path runs to its end.
TaskRepliedStep(t) ==
    LET r == image_handler_replied(t, list_image) IN
    /\ t.kind = "collision"
    /\ list_image' = r.table
    /\ suspended' = suspended \ {t}
    /\ last' = Handled("photo", TRUE, r.notice)
    /\ UNCHANGED <<list_video, list_output, pc, permits>>

\* Two messages of one name, and a second name for the second message.
TaskPhotos == {<<1, "alice">>, <<11, "alice">>, <<11, "alicia">>}
\* The creation requests succeed or fail; the channel update succeeds or fails
\* at the title.
TaskCreateEnvs == {e \in ImageEnvs : e.update = "none"}
TaskUpdateEnvs ==
    {e \in ImageEnvs : e.topic # 0 /\ e.channel # 0
                       /\ e.update \in {"none", "title"}}

TaskPhoto ==
    \E m \in TaskPhotos : TaskPhotoStep(m[1], m[2])

TaskTopic ==
    \E t \in suspended, env \in TaskCreateEnvs : TaskTopicStep(t, env)

TaskChannel ==
    \E t \in suspended, env \in TaskCreateEnvs : TaskChannelStep(t, env)

TaskJoin ==
    \E t \in suspended : TaskJoinStep(t)

TaskUpdated ==
    \E t \in suspended, env \in TaskUpdateEnvs : TaskUpdatedStep(t, env)

TaskReplied ==
    \E t \in suspended : TaskRepliedStep(t)

\* handle_message_deleted has no await: it runs to its end at once.
TaskMessageDeleted ==
    \E deleted_ids \in DeletedIdLists(ImageMsgIds, MaxDeleted) :
        MessageDeletedStep(deleted_ids)

NextTasks ==
    \/ TaskPhoto
    \/ TaskTopic
    \/ TaskChannel
    \/ TaskJoin
    \/ TaskUpdated
    \/ TaskReplied
    \/ TaskMessageDeleted

SpecTasks == Init /\ [][NextTasks]_vars

\* ---------------------------------------------------------- the order of a batch
\* Batch runs over two images and two videos of different names, the names
\* given in either order, whatever the order of the rows in the worksheets.

OrderVideos == {<<2, "v1">>, <<12, "v2">>}
OrderImageNames == {<<"alice", "alicia">>, <<"alicia", "alice">>}
OrderVideoNames == {<<"v1", "v2">>, <<"v2", "v1">>}

OrderNewPhoto ==
    \E m \in NominalPhotos, env \in NominalEnvs :
        NewPhotoStep(m[1], m[2], env)

OrderNewVideo ==
    \E m \in OrderVideos : NewVideoStep(m[1], m[2])

OrderMessageDeleted ==
    \E deleted_ids \in DeletedIdLists(ImageMsgIds, MaxDeleted) :
        MessageDeletedStep(deleted_ids)

OrderDomany ==
    \E image_names \in OrderImageNames, video_names \in OrderVideoNames :
        \E fates \in BatchFates(image_names, video_names, NominalFates) :
            DomanyStep(image_names, video_names, fates)

NextOrder ==
    \/ OrderNewPhoto
    \/ OrderNewVideo
    \/ OrderMessageDeleted
    \/ OrderDomany

SpecOrder == Init /\ [][NextOrder]_vars

\* ---------------------------------------------------------- the enhancer's threads
\* Threads calling enhance_face side by side.  pc of a thread:
\*   idle     - not in a call, none made yet
\*   prepared - the face is cropped, the thread is at the with statement
\*   inside   - in the with block, in the enhance call
\*   returned - the call returned
\*   raised   - enhance raised, the exception left the with block
\*   failed   - the statements before the with statement raised

\* A call of enhance_face starts and runs up to the with statement, or
\* raises before it.
EnhancerPrepareStep(t, ok) ==
    /\ pc[t] \in {"idle", "returned", "raised", "failed"}
    /\ pc' = [pc EXCEPT ![t] = IF ok THEN "prepared" ELSE "failed"]
    /\ UNCHANGED <<list_image, list_video, list_output, last, suspended,
                   permits>>

\* with THREAD_SEMAPHORE: acquire blocks while the counter is 0.
EnhancerAcquireStep(t) ==
    /\ pc[t] = "prepared"
    /\ permits > 0
    /\ permits' = permits - 1
    /\ pc' = [pc EXCEPT ![t] = "inside"]
    /\ UNCHANGED <<list_image, list_video, list_output, last, suspended>>

\* The enhance call returns or raises, and the with block is left.
EnhancerExitStep(t, outcome) ==
    /\ pc[t] = "inside"
    /\ permits' = semaphore_exit(permits, outcome)
    /\ pc' = [pc EXCEPT ![t] = outcome]
    /\ UNCHANGED <<list_image, list_video, list_output, last, suspended>>

EnhancerPrepare ==
    \E t \in Threads, ok \in BOOLEAN : EnhancerPrepareStep(t, ok)

EnhancerAcquire ==
    \E t \in Threads : EnhancerAcquireStep(t)

EnhancerExit ==
    \E t \in Threads, outcome \in {"returned", "raised"} :
        EnhancerExitStep(t, outcome)

NextEnhancer ==
    \/ EnhancerPrepare
    \/ EnhancerAcquire
    \/ EnhancerExit

SpecEnhancer == Init /\ [][NextEnhancer]_vars

\* ------------------------------------------------------------------ claims

RowsNamed(table, name) == {k \in 1..Len(table) : table[k].name = name}
RowsWithId(table, message_id) ==
    {k \in 1..Len(table) : table[k].id = Str(message_id)}
Captions(texts) == texts \ {""}
CreationRequests == {"CreateForumTopicRequest", "CreateChannelRequest"}
NameUnique(table) ==
    \A k, j \in 1..Len(table) : table[k].name = table[j].name => k = j

C2_ImageNameUnique == NameUnique(list_image)

\* C3: an edit of a registered id whose new text is the name of a row stored
\* under another id rewrites that row's id to the editing id, and list_image
\* ends with exactly one row of the new name.
C3_RenameReusesRow ==
    [][\A message_id \in ImageMsgIds, text \in Captions(ImageTexts),
          env \in ImageEnvs :
          LET new == Lower(text)
              mine == RowsWithId(list_image, message_id)
              others == RowsNamed(list_image, new) \ mine
          IN  ( /\ EditedPhotoStep(message_id, text, env)
                /\ mine # {} /\ others # {}
                /\ \A k \in mine : list_image[k].name # new )
              => /\ Cardinality(RowsNamed(list_image', new)) = 1
                 /\ \A k \in RowsNamed(list_image', new) :
                        list_image'[k].id = Str(message_id)
      ]_vars

\* C4: a submission whose id has no row and whose lower-cased text is the
\* name of a row appends nothing, creates no topic and no channel, and
\* rewrites the id cell of that row (the first of that name) to the new id,
\* leaving every other cell as it was.
C4_CollisionReusesRow ==
    \A message_id \in ImageMsgIds, text \in Captions(ImageTexts), env \in ImageEnvs :
        LET new == Lower(text)
            named == RowsNamed(list_image, new)
        IN  (RowsWithId(list_image, message_id) = {} /\ named # {})
            => LET r == new_photo_faces(message_id, text, list_image, env)
                   first == CHOOSE k \in named : \A j \in named : k <= j
               IN  /\ Len(r.table) = Len(list_image)
                   /\ r.calls \cap CreationRequests = {}
                   /\ r.table[first].id = Str(message_id)
                   /\ \A k \in 1..Len(list_image) :
                          /\ k # first => r.table[k] = list_image[k]
                          /\ \A col \in {"name", "chat", "topic", "prior", "channel"} :
                                 r.table[k][col] = list_image[k][col]

\* A name collision has just been handled: the reply says the topic exists
\* and the id was updated.
C4_Witness ==
    /\ last.op = "new_photo"
    /\ last.notice = "topic already exist and updated the id"
    /\ list_image # << >>

\* C5: a video submission whose lower-cased text is the name of a list_video
\* row is rejected with "already exist" and leaves list_video unchanged.
C5_DuplicateVideoRejected ==
    [][\A message_id \in VideoMsgIds, text \in Captions(VideoTexts) :
          ( /\ NewVideoStep(message_id, text)
            /\ RowsNamed(list_video, Lower(text)) # {} )
          => /\ last'.notice = "video already exist"
             /\ list_video' = list_video
      ]_vars

\* C6: list_video holds at most one row per displayName.
C6_VideoNameUnique == NameUnique(list_video)

\* C7: handling a video submission, or an edit, for an id that already has
\* its row leaves list_video with exactly one row of that id.
C7_VideoResubmissionIdempotent ==
    [][\A message_id \in VideoMsgIds, text \in Captions(VideoTexts) :
          ( /\ NewVideoStep(message_id, text) \/ EditedVideoStep(message_id, text)
            /\ Cardinality(RowsWithId(list_video, message_id)) = 1 )
          => Cardinality(RowsWithId(list_video', message_id)) = 1
      ]_vars

\* C8: for a new id and a new name exactly one row is appended whichever of
\* the two creation requests fail; it carries the ids that were created and
\* an empty cell for each request that failed.
C8_RowAppendedWhateverFails ==
    [][\A message_id \in ImageMsgIds, text \in Captions(ImageTexts),
          env \in ImageEnvs :
          LET new == Lower(text)
              n == Len(list_image)
          IN  ( /\ NewPhotoStep(message_id, text, env)
                /\ RowsWithId(list_image, message_id) = {}
                /\ RowsNamed(list_image, new) = {} )
              => /\ Len(list_image') = n + 1
                 /\ SubSeq(list_image', 1, n) = list_image
                 /\ list_image'[n + 1].id = Str(message_id)
                 /\ list_image'[n + 1].name = new
                 /\ list_image'[n + 1].topic =
                        (IF env.topic # 0 THEN Str(env.topic) ELSE << >>)
                 /\ list_image'[n + 1].channel =
                        (IF env.channel # 0 THEN Str(env.channel) ELSE << >>)
      ]_vars

\* C9: a new or edited photo or video message without a caption causes no
\* sheet write and leaves its worksheet as it is; a new one is answered with
\* the prompt to add a caption, an edited one with nothing.
C9_NoCaptionNoWrite ==
    /\ \A message_id \in ImageMsgIds, env \in ImageEnvs :
          LET r == new_photo_faces(message_id, "", list_image, env)
              e == message_edited_faces(message_id, "", list_image, env)
          IN  /\ r.table = list_image /\ r.writes = 0 /\ r.calls = {}
              /\ r.notice = "please update the caption for the image"
              /\ e.table = list_image /\ e.writes = 0 /\ e.calls = {}
    /\ \A message_id \in VideoMsgIds :
          LET r == new_photo_vid(message_id, "", list_video)
              e == message_edited_vid(message_id, "", list_video)
          IN  /\ r.table = list_video /\ r.writes = 0
              /\ r.notice = "please update the caption for the video"
              /\ e.table = list_video /\ e.writes = 0

\* A photo without a caption has just been handled while rows were
\* registered: the sender was prompted.
C9_Witness ==
    /\ last.op = "new_photo"
    /\ ~last.caption
    /\ last.notice = "please update the caption for the image"
    /\ list_image # << >>
    /\ list_video # << >>

\* C10: a deletion event removes, for every id of the event that has a row in
\* list_image, that row and every list_output row whose key begins with the
\* id and "_", and nothing else from list_image and list_output; when every
\* id of the event is such an id, list_video is left as it is.
C10_DeletionCascade ==
    \A deleted_ids \in DeletedIdLists(MsgIds, MaxDeleted) :
        LET r == handle_message_deleted(deleted_ids, list_image, list_video,
                                        list_output)
            ids == {deleted_ids[n] : n \in DOMAIN deleted_ids}
            imgs == {d \in ids : RowsWithId(list_image, d) # {}}
            KeepImage(row) == \A d \in imgs : row.id # Str(d)
            KeepOutput(row) ==
                \A d \in imgs : ~StartsWith(row.key, Str(d) \o <<"_">>)
        IN  imgs # {}
            => /\ r.image = SelectSeq(list_image, KeepImage)
               /\ r.output = SelectSeq(list_output, KeepOutput)
               /\ ids = imgs => r.video = list_video

\* An image is registered whose output rows lie on both sides of a row of
\* another image, and the deletion event for it removes exactly those rows.
C10_Witness ==
    \E d \in ImageMsgIds :
        LET Mine(k) == StartsWith(list_output[k].key, Str(d) \o <<"_">>)
            r == handle_message_deleted(<<d>>, list_image, list_video,
                                        list_output)
        IN  /\ RowsWithId(list_image, d) # {}
            /\ \E i, j, k \in 1..Len(list_output) :
                   i < j /\ j < k /\ Mine(i) /\ ~Mine(j) /\ Mine(k)
            /\ Len(r.output) = Len(list_output) - 2
            /\ Len(r.image) = Len(list_image) - 1

\* ---------------------------------------------------------------- C11..C20

IdsOf(deleted_ids) == {deleted_ids[n] : n \in DOMAIN deleted_ids}
AllImageNames == BatchImageNames \cup RepeatedImageNames
Registered(names, table) ==
    \A n \in DOMAIN names : RowsNamed(table, names[n]) # {}
CleanFates == {f \in Fates : f.raises = "none"}

\* C11: a deletion event whose ids match no row of list_image and no row of
\* list_video deletes nothing: the three worksheets stay as they are, no
\* sheet write is made and the handler counts no deleted message.
C11_UnknownIdDeletesNothing ==
    \A deleted_ids \in DeletedIdLists(MsgIds, MaxDeleted) :
        LET r == handle_message_deleted(deleted_ids, list_image, list_video,
                                        list_output)
        IN  (\A d \in IdsOf(deleted_ids) :
                /\ RowsWithId(list_image, d) = {}
                /\ RowsWithId(list_video, d) = {})
            => /\ r.image = list_image
               /\ r.video = list_video
               /\ r.output = list_output
               /\ r.deleted_count = 0
               /\ r.writes = 0

\* A deletion event that matched nothing has just been handled while image
\* 11 was registered and id 1, a prefix of its id text, was not.
C11_Witness ==
    /\ last.op = "deleted"
    /\ last.notice = "no matching entries"
    /\ RowsWithId(list_image, 11) # {}
    /\ RowsWithId(list_image, 1) = {}
    /\ list_video # << >>

\* C12: when a batch run over (I, V) ends with every combination recorded
\* (none failed, the run was not cut short), the same run started right
\* after it lets no combination past the existence check (so nothing that
\* could happen to a combination matters): it renders nothing, delivers
\* nothing, appends nothing and counts every combination as skipped.
C12_SecondRunRendersNothing ==
    \A image_names \in AllImageNames, video_names \in BatchVideoNames :
        \A fates \in BatchFates(image_names, video_names, CleanFates) :
            LET total == Len(image_names) * Len(video_names)
                r1 == domany(image_names, video_names, list_image, list_video,
                             list_output, fates)
            IN  (~r1.aborted /\ r1.fail_list = << >>)
                => LET r2 == domany(image_names, video_names, list_image,
                                    list_video, r1.output,
                                    [k \in 1..total |->
                                        [raises |-> "none", file |-> FALSE,
                                         report |-> FALSE]])
                   IN  /\ ~r2.aborted
                       /\ r2.taken = 0
                       /\ r2.renders = << >>
                       /\ r2.delivered = << >>
                       /\ r2.skip = total
                       /\ r2.output = r1.output

\* A batch run has just completed and recorded its outputs, and the same
\* names run again from here are all skipped.
C12_Witness ==
    /\ last.op = "domany"
    /\ last.notice = "completed"
    /\ list_output # << >>
    /\ \E image_names \in BatchImageNames, video_names \in BatchVideoNames :
           LET r2 == domany(image_names, video_names, list_image, list_video,
                            list_output,
                            [k \in 1..(Len(image_names) * Len(video_names)) |->
                                [raises |-> "none", file |-> FALSE,
                                 report |-> FALSE]])
           IN  /\ ~r2.aborted
               /\ r2.skip = Len(image_names) * Len(video_names)

\* C13: the run /domany alice v1,v2 with alice and v1 registered, v2 not
\* registered and no output rows, where no step of alice_v1 raises, ends
\* with one success, with the failure list <<alice_v2>>, and completes.
C13_MissingNameFailsOneCombination ==
    [][\A fates \in BatchFates(<<"alice">>, <<"v1", "v2">>, NominalFates) :
          LET r == domany(<<"alice">>, <<"v1", "v2">>, list_image, list_video,
                          list_output, fates)
          IN  ( /\ DomanyStep(<<"alice">>, <<"v1", "v2">>, fates)
                /\ RowsNamed(list_image, "alice") # {}
                /\ RowsNamed(list_video, "v1") # {}
                /\ RowsNamed(list_video, "v2") = {}
                /\ list_output = << >>
                /\ \A k \in DOMAIN fates : fates[k].raises = "none" )
              => /\ r.success = 1
                 /\ r.fail_list = <<ComboName("alice", "v2")>>
                 /\ ~r.aborted
                 /\ last'.notice = "completed"
      ]_vars

\* C14: in a batch run whose names are all registered, whatever step of a
\* combination raises, the run goes through the whole cross product, and
\* every combination ends as a success, a skip or an entry of the failure
\* list.
C14_FailureIsolatedPerCombination ==
    [][\A image_names \in AllImageNames, video_names \in BatchVideoNames :
          \A fates \in BatchFates(image_names, video_names, BatchRunFates) :
              LET total == Len(image_names) * Len(video_names)
                  r == domany(image_names, video_names, list_image,
                              list_video, list_output, fates)
              IN  ( /\ DomanyStep(image_names, video_names, fates)
                    /\ Registered(image_names, list_image)
                    /\ Registered(video_names, list_video) )
                  => /\ ~r.aborted
                     /\ r.progress = total
                     /\ r.success + r.skip + Len(r.fail_list) = total
      ]_vars

\* C15: the rows a batch run appends to list_output are exactly the pairs
\* it delivered, in the order of delivery: no row without a delivery and a
\* row for every delivery.
C15_RowIffDelivered ==
    [][\A image_names \in AllImageNames, video_names \in BatchVideoNames :
          \A fates \in BatchFates(image_names, video_names, BatchRunFates) :
              LET r == domany(image_names, video_names, list_image,
                              list_video, list_output, fates)
                  n == Len(list_output)
              IN  DomanyStep(image_names, video_names, fates)
                  => /\ Len(list_output') = n + Len(r.delivered)
                     /\ \A k \in 1..Len(r.delivered) :
                            list_output'[n + k].key = r.delivered[k]
      ]_vars

C17_AvatarUpdatedOnEveryEdit ==
    [][\A message_id \in ImageMsgIds, text \in Captions(ImageTexts),
          env \in ImageEnvs :
          \A k \in RowsWithId(list_image, message_id) :
              ( /\ EditedPhotoStep(message_id, text, env)
                /\ env.update # "entity"
                /\ list_image[k].channel # << >> )
              => "EditPhotoRequest" \in
                     message_edited_faces(message_id, text, list_image, env).calls
      ]_vars

\* C18: list_output holds at most one row per output key.
C18_OutputKeyUnique ==
    \A k, j \in 1..Len(list_output) :
        list_output[k].key = list_output[j].key => k = j

IdsKept(old, new) ==
    /\ Len(new) >= Len(old)
    /\ \A k \in 1..Len(old) : new[k].id = old[k].id
Collides(message_id, text) ==
    /\ text # ""
    /\ RowsWithId(list_image, message_id) = {}
    /\ RowsNamed(list_image, Lower(text)) # {}
OnlyFirstRekeyed(old, new, name) ==
    LET named == RowsNamed(old, name)
        first == CHOOSE k \in named : \A j \in named : k <= j
    IN  /\ Len(new) = Len(old)
        /\ \A k \in 1..Len(old) : k # first => new[k].id = old[k].id

\* C19 as stated: no registration or edit step changes the id cell of a row
\* that list_image already holds.
C19_AssetIdImmutable ==
    [][last'.op \in {"new_photo", "edited_photo"}
          => IdsKept(list_image, list_image')]_vars

\* C19 as amended: the id cell of a row of list_image changes in one case
\* only, the handling of a name collision (an id without a row submits the
\* name of a row), and then only in the first row of that name.  Every
\* other registration or edit keeps every id cell and removes no row, and a
\* deletion removes rows without changing an id cell of the rows that stay.
C19_AssetIdChangesOnlyOnCollision ==
    /\ \A message_id \in ImageMsgIds, text \in ImageTexts, env \in ImageEnvs :
          LET n == new_photo_faces(message_id, text, list_image, env).table
              e == message_edited_faces(message_id, text, list_image, env).table
          IN  IF Collides(message_id, text)
              THEN /\ OnlyFirstRekeyed(list_image, n, Lower(text))
                   /\ OnlyFirstRekeyed(list_image, e, Lower(text))
              ELSE /\ IdsKept(list_image, n)
                   /\ IdsKept(list_image, e)
    /\ \A deleted_ids \in DeletedIdLists(MsgIds, MaxDeleted) :
          LET Stays(row) == \A d \in IdsOf(deleted_ids) : row.id # Str(d)
          IN  handle_message_deleted(deleted_ids, list_image, list_video,
                                     list_output).image
                  = SelectSeq(list_image, Stays)
    /\ \A name \in Captions(ImageTexts) :
          \E row_number \in 1..(Len(list_image) + 1) :
              delete_image_command(name, list_image, list_output).image
                  = DeleteRows(list_image, row_number)

\* An edit has just renamed one of two registered rows.
C19_Witness ==
    /\ last.op = "edited_photo"
    /\ last.notice = "renamed"
    /\ Len(list_image) = 2

\* C20: an edit event for an id that has no row, handled right after a
\* deletion event that removed a row, leaves list_image as it is and issues
\* no request.
C20_EditAfterDeletionIsNoOp ==
    [][\A message_id \in ImageMsgIds, text \in Captions(ImageTexts),
          env \in ImageEnvs :
          ( /\ EditedPhotoStep(message_id, text, env)
            /\ last.op = "deleted"
            /\ last.notice = "processed"
            /\ RowsWithId(list_image, message_id) = {} )
          => /\ list_image' = list_image
             /\ message_edited_faces(message_id, text, list_image, env).calls = {}
      ]_vars

\* ---------------------------------------------------------------- C21..C30

IsPrefix(s, t) == Len(s) <= Len(t) /\ SubSeq(t, 1, Len(s)) = s

\* C21: a step that does not delete an image leaves every row list_output
\* holds in place and unmodified: registrations, edits, video deletions (by
\* event or by command) and batch runs at most append rows, and a deletion
\* that removes no row of list_image leaves list_output as it is.
C21_OutputRowsRemovedOnlyByImageDeletion ==
    [][ /\ last'.op \notin {"deleted", "delete_image"}
            => IsPrefix(list_output, list_output')
        /\ (last'.op \in {"deleted", "delete_image"} /\ list_image' = list_image)
            => list_output' = list_output
      ]_vars

\* /delete_video has just removed a video while list_output held rows.
C21_Witness ==
    /\ last.op = "delete_video"
    /\ last.notice = "deleted video"
    /\ list_output # << >>

\* list_image as a sheet of the old structure holds it: without the channel
\* column.
LegacyRows(table) ==
    [k \in 1..Len(table) |->
        [col \in {"id", "name", "chat", "topic", "prior"} |-> table[k][col]]]
NoChannel(row) == "channel" \notin DOMAIN row \/ row.channel = << >>
EditWithoutChannelIsDegraded(table) ==
    \A message_id \in ImageMsgIds, text \in Captions(ImageTexts), env \in ImageEnvs :
        \A k \in RowsWithId(table, message_id) :
            NoChannel(table[k])
            => LET r == message_edited_faces(message_id, text, table, env)
               IN  /\ r.table = table
                   /\ r.notice = "no channel associated"
                   /\ r.calls = {}
                   /\ r.writes = 0

\* C23: an edit event for a row whose channel cell is empty, or whose row has
\* no channel column at all, is answered with the notice that no channel is
\* associated, issues no request and leaves list_image as it is.
C23_EditWithoutChannelIsDegraded ==
    /\ EditWithoutChannelIsDegraded(list_image)
    /\ EditWithoutChannelIsDegraded(LegacyRows(list_image))

\* An edit of a row without a channel has just been answered.
C23_Witness ==
    /\ last.op = "edited_photo"
    /\ last.notice = "no channel associated"
    /\ \E k \in 1..Len(list_image) : list_image[k].channel = << >>

\* C24: an edit of a row that has a channel id sets the row's name and prior
\* name cells to the new text, and nothing else, when update_channel_info
\* returns True, and leaves list_image as it is when it returns False.
C24_EditWritesNameOnSuccessOnly ==
    \A message_id \in ImageMsgIds, text \in Captions(ImageTexts), env \in ImageEnvs :
        \A k \in RowsWithId(list_image, message_id) :
            list_image[k].channel # << >>
            => LET new == Lower(text)
                   upd == update_channel_info(new, TRUE, list_image[k].name, env)
                   r == message_edited_faces(message_id, text, list_image, env)
               IN  /\ upd.ok
                        => r.table = [list_image EXCEPT ![k].name = new,
                                                        ![k].prior = new]
                   /\ ~upd.ok
                        => /\ r.table = list_image
                           /\ r.notice = "failed to update channel"

\* An edit whose channel update failed has just been handled while two rows
\* were registered.
C24_Witness ==
    /\ last.op = "edited_photo"
    /\ last.notice = "failed to update channel"
    /\ Len(list_image) = 2

\* C29: in a batch run, every pair that is delivered was rendered by the same
\* run before: the render step runs for every combination that gets past the
\* existence check and whose inputs download.
C29_RenderBeforeEveryUpload ==
    [][\A image_names \in AllImageNames, video_names \in BatchVideoNames :
          \A fates \in BatchFates(image_names, video_names, BatchRunFates) :
              LET r == domany(image_names, video_names, list_image,
                              list_video, list_output, fates)
              IN  DomanyStep(image_names, video_names, fates)
                  => \A k \in 1..Len(r.delivered) :
                         \E j \in 1..Len(r.renders) :
                             r.renders[j] = r.delivered[k]
      ]_vars

\* A batch run whose worksheet list_output has moved on since the run read
\* it: `later` are rows another handler appended after the snapshot.
RunAfterSnapshot(image_names, video_names, later, fates) ==
    DomanyImages(
        [image_map |-> create_map_user_image(get_data(list_image)),
         video_map |-> create_map_video(get_data(list_video)),
         current_data |-> get_data(list_output),
         output |-> list_output \o later,
         progress |-> 0, success |-> 0, skip |-> 0, fail_list |-> << >>,
         renders |-> << >>, delivered |-> << >>, writes |-> 0,
         passes |-> << >>, updates |-> << >>,
         taken |-> 0, aborted |-> FALSE],
        image_names, video_names, 1, fates)
\* The rows another handler can have appended: none, or the row of a pair.
LaterRows ==
    {<< >>} \cup
    {<<OutputRow(OutputKey(Str(i), Str(v)), ComboName("alice", "v1"))>> :
        i \in ImageMsgIds, v \in VideoMsgIds}
\* The combinations of a run whose key is in list_output as it is now.
InSnapshot(image_names, video_names) ==
    LET image_map == create_map_user_image(list_image)
        video_map == create_map_video(list_video)
    IN  {c \in (DOMAIN image_names) \X (DOMAIN video_names) :
            \E k \in 1..Len(list_output) :
                list_output[k].key =
                    OutputKey(image_map[image_names[c[1]]],
                              video_map[video_names[c[2]]])}

\* C30: a batch run over registered names skips exactly the combinations
\* whose key is in list_output as the run read it before the first
\* combination; the rows the run appends itself, and rows another handler
\* appended after the snapshot, make it skip nothing more.
C30_SkipsDecidedBySnapshot ==
    \A image_names \in AllImageNames, video_names \in BatchVideoNames :
        (Registered(image_names, list_image) /\ Registered(video_names, list_video))
        => \A later \in LaterRows :
               LET total == Len(image_names) * Len(video_names)
                   r == RunAfterSnapshot(image_names, video_names, later,
                            [k \in 1..total |->
                                [raises |-> "none", file |-> FALSE,
                                 report |-> FALSE]])
               IN  /\ ~r.aborted
                   /\ r.skip = Cardinality(InSnapshot(image_names, video_names))
                   /\ r.taken = total - r.skip

\* A run that named one image twice has just completed: the row it appended
\* for the first combination did not make it skip the second.
C30_Witness ==
    /\ last.op = "domany"
    /\ last.notice = "completed"
    /\ \E k, j \in 1..Len(list_output) :
           k < j /\ list_output[k].key = list_output[j].key

\* C22: when the store rejects a write request of a photo handler run or of
\* a deletion handler run, the run ends with a failure outcome: the photo
\* handler raises or replies with a failure, the deletion handler reports
\* neither that it processed the deletion nor that nothing matched.
C22_RejectedWriteReportsFailure ==
    [][ /\ \A m \in RejectingPhotos, env \in NominalEnvs, reject \in RejectOrdinals :
             ( /\ RejectingNewPhotoStep(m[1], m[2], env, reject)
               /\ new_photo_faces_rejecting(m[1], m[2], list_image, env,
                                            reject).rejected )
             => last'.notice \in {"raised", "failed to update channel"}
        /\ \A deleted_ids \in DeletedIdLists(ImageMsgIds \cup OtherMsgIds,
                                             MaxDeleted),
              reject \in RejectOrdinals :
             ( /\ RejectingDeletedStep(deleted_ids, reject)
               /\ handle_message_deleted_rejecting(deleted_ids, list_image,
                      list_video, list_output, reject).rejected )
             => last'.notice \notin {"processed", "no matching entries"}
      ]_vars

\* C28: delete_outputs_by_image_id returns the number and the labels of the
\* rows it removed from list_output, also when the store rejects one of its
\* delete requests.
C28_CascadeReportsWhatItRemoved ==
    \A d \in ImageMsgIds, reject \in RejectOrdinals :
        LET r == delete_outputs_by_image_id_rejecting(Str(d), list_output, 0,
                                                      reject)
            Gone(k) == StartsWith(list_output[k].key, Str(d) \o <<"_">>)
        IN  /\ r.count = Len(list_output) - Len(r.table)
            /\ Len(r.labels) = r.count
            /\ \A n \in 1..Len(r.labels) :
                   \E k \in 1..Len(list_output) :
                       Gone(k) /\ list_output[k].label = r.labels[n]

\* The rows of list_image stored under a message id.
RowsOfMessage(message_id) ==
    {k \in 1..Len(list_image) : list_image[k].id = Str(message_id)}

\* C25: when update_channel_info has returned True and list_image still holds
\* the row of the edited message, the two cell writes change the name and the
\* prior name of that row and nothing else, whatever the other handlers did
\* to list_image during the await.
C25_EditWritesLandOnEditedRow ==
    [][\A t \in suspended, env \in TaskUpdateEnvs :
          (/\ TaskUpdatedStep(t, env)
           /\ image_handler_updated(t, list_image, env).ok
           /\ RowsOfMessage(t.message_id) # {})
          => \E k \in RowsOfMessage(t.message_id) :
                 list_image' = [list_image EXCEPT ![k].name = t.text,
                                                  ![k].prior = t.text]
      ]_vars

\* C26: a creation path that appends its row never finds a row of the same
\* name already in list_image: two messages with one new name get one topic,
\* one channel and one row between them.
C26_OneRowPerNewName ==
    [][\A t \in suspended :
          (TaskJoinStep(t) /\ t.topic.type = "int")
          => \A k \in 1..Len(list_image) : list_image[k].name # t.text
      ]_vars

\* C27: a row with a topic id is appended to list_image only by a creation
\* path whose topic request and channel request have both been answered; the
\* step appends that one row and ends the handler.
C27_RowAppendedAfterBothCreations ==
    [][(/\ Len(list_image') > Len(list_image)
        /\ list_image'[Len(list_image')].topic # << >>)
       => \E t \in suspended :
              /\ t.kind = "create"
              /\ t.topic.type = "int"
              /\ t.channel # Pending
              /\ list_image' = Append(list_image,
                                      image_handler_joined(t, list_image).table[
                                          Len(list_image) + 1])
              /\ Len(list_image') = Len(list_image) + 1
              /\ suspended' = suspended \ {t}
      ]_vars

\* A creation path has appended its row after the channel request failed,
\* while another handler is still waiting.
C27_Witness ==
    /\ last.op = "photo"
    /\ last.notice = "topic created (channel failed)"
    /\ suspended # {}
    /\ \E k \in 1..Len(list_image) :
           list_image[k].topic # << >> /\ list_image[k].channel = << >>

\* ---------------------------------------------------------------- C31..C37

\* C31: the k-th pass of a batch run (k from 0) handles the pair
\* (image_names[k div n], video_names[k mod n]) with n the number of video
\* names, whatever the order of the rows of list_image and list_video; a run
\* that is not cut short makes a pass for every pair.
C31_CombinationsInCommandOrder ==
    \A image_names \in OrderImageNames, video_names \in OrderVideoNames :
        \A fates \in BatchFates(image_names, video_names, NominalFates) :
            LET r == domany(image_names, video_names, list_image, list_video,
                            list_output, fates)
                n == Len(video_names)
            IN  /\ \A k \in 0..(Len(r.passes) - 1) :
                       /\ r.passes[k + 1].image = image_names[(k \div n) + 1]
                       /\ r.passes[k + 1].video = video_names[(k % n) + 1]
                /\ ~r.aborted => Len(r.passes) = Len(image_names) * n

\* A run has completed whose first row is an output of alice and whose last
\* row is an output of alicia, while list_image holds alicia's row above
\* alice's.
C31_Witness ==
    /\ last.op = "domany"
    /\ last.notice = "completed"
    /\ Len(list_output) >= 3
    /\ list_output[1].label[1] = "alice"
    /\ list_output[Len(list_output)].label[1] = "alicia"
    /\ \E a, b \in 1..Len(list_image) :
           a < b /\ list_image[a].name = "alicia" /\ list_image[b].name = "alice"

\* The passes of a run that ended neither as a success nor as a skip.
FailedPasses(r) ==
    {k \in 1..Len(r.passes) :
        LET success == IF k = 1 THEN 0 ELSE r.passes[k - 1].success
            skip == IF k = 1 THEN 0 ELSE r.passes[k - 1].skip
        IN  r.passes[k].success = success /\ r.passes[k].skip = skip}

\* C32: a batch run edits the tracking message at the end of every pass to
\* the counters as they are then, and the text of the last edit of the run
\* lists the label of every pass that failed.
C32_ProgressUpdateAfterEveryCombination ==
    [][\A image_names \in AllImageNames, video_names \in BatchVideoNames :
          \A fates \in BatchFates(image_names, video_names, BatchRunFates) :
              LET r == domany(image_names, video_names, list_image,
                              list_video, list_output, fates)
                  Shown(k) ==
                      \E u \in 1..Len(r.updates) :
                          /\ ~r.updates[u].current
                          /\ r.updates[u].progress = r.passes[k].progress
                          /\ r.updates[u].success = r.passes[k].success
                          /\ r.updates[u].skip = r.passes[k].skip
                          /\ r.updates[u].fail = r.passes[k].fail
                  Listed(k) ==
                      /\ r.updates # << >>
                      /\ \E n \in 1..Len(r.updates[Len(r.updates)].failed) :
                             r.updates[Len(r.updates)].failed[n] =
                                 ComboName(r.passes[k].image, r.passes[k].video)
              IN  DomanyStep(image_names, video_names, fates)
                  => /\ \A k \in 1..Len(r.passes) : Shown(k)
                     /\ \A k \in FailedPasses(r) : Listed(k)
      ]_vars

\* C34: from one pass of a batch run to the next no counter decreases, and
\* at the end of every pass progress = success + skip + the length of the
\* failure list.
C34_CountersAddUp ==
    [][\A image_names \in AllImageNames, video_names \in BatchVideoNames :
          \A fates \in BatchFates(image_names, video_names, BatchRunFates) :
              LET r == domany(image_names, video_names, list_image,
                              list_video, list_output, fates)
              IN  DomanyStep(image_names, video_names, fates)
                  => /\ \A k \in 2..Len(r.passes) :
                            /\ r.passes[k].progress >= r.passes[k - 1].progress
                            /\ r.passes[k].success >= r.passes[k - 1].success
                            /\ r.passes[k].skip >= r.passes[k - 1].skip
                            /\ r.passes[k].fail >= r.passes[k - 1].fail
                     /\ \A k \in 1..Len(r.passes) :
                            r.passes[k].progress =
                                r.passes[k].success + r.passes[k].skip
                                    + r.passes[k].fail
      ]_vars

\* C37: every batch run ends by leaving the loops, with progress equal to
\* the number of pairs of the cross product.
C37_RunCoversCrossProduct ==
    [][\A image_names \in AllImageNames, video_names \in BatchVideoNames :
          \A fates \in BatchFates(image_names, video_names, BatchRunFates) :
              LET r == domany(image_names, video_names, list_image,
                              list_video, list_output, fates)
              IN  DomanyStep(image_names, video_names, fates)
                  => /\ ~r.aborted
                     /\ r.progress = Len(image_names) * Len(video_names)
                     /\ last'.notice = "completed"
      ]_vars

\* C35: every row of list_output has a key that begins with the id of a row
\* of list_image followed by "_".
C35_OutputRowsHaveAnImage ==
    \A k \in 1..Len(list_output) :
        \E j \in 1..Len(list_image) :
            StartsWith(list_output[k].key, list_image[j].id \o <<"_">>)

\* C36: /delete_image <name> with a row of that name (in lower case, without
\* the blanks around it) in list_image leaves no
\* row of that name, removes one row of list_image and the rows of
\* list_output whose key begins with that row's id and "_", and nothing
\* else; with no row of that name it writes nothing and reports that the
\* image was not found.
C36_DeleteImageCommandRemovesName ==
    [][\A name \in CommandImageNames :
          DeleteImageCommandStep(name)
          => IF RowsNamed(list_image, Strip(Lower(name))) # {}
             THEN /\ RowsNamed(list_image', Strip(Lower(name))) = {}
                  /\ \E k \in RowsNamed(list_image, Strip(Lower(name))) :
                         /\ list_image' = DeleteRows(list_image, k + 1)
                         /\ list_output' =
                                SelectSeq(list_output,
                                    LAMBDA o : ~StartsWith(o.key,
                                                   list_image[k].id \o <<"_">>))
                  /\ last'.notice = "deleted image"
             ELSE /\ UNCHANGED <<list_image, list_video, list_output>>
                  /\ last'.notice = "image not found"
      ]_vars

\* The threads in the enhance call.
Inside == {t \in Threads : pc[t] = "inside"}

\* C33: at most one thread is in the enhance call, and the permit of the
\* semaphore is either held by the thread in the call or free: after a call
\* that returned and after a call that raised it is free for the next
\* caller.
C33_OneThreadInEnhance ==
    /\ Cardinality(Inside) <= 1
    /\ permits + Cardinality(Inside) = SemaphoreValue

\* A thread is in the enhance call after the call of another thread raised,
\* while a third thread waits at the with statement.
C33_Witness ==
    \E t, u, w \in Threads :
        pc[t] = "raised" /\ pc[u] = "inside" /\ pc[w] = "prepared"

====
